---- MODULE Spec2Model ----
(***************************************************************************)
(* Model of the multi-recipient transfer operation of                      *)
(* mitum-account-extension-proto: currency/transfer.go (TransfersFact,     *)
(* Transfers, TransferProcessor, TransfersProcessor) together with the     *)
(* ledger collaborators it calls (lookup, commit, fee schedule, signature  *)
(* check, account-state helpers).                                          *)
(*                                                                         *)
(* Optional values (a Go nil, an absent ledger entry) are sequences of     *)
(* length 0 or 1: <<>> is "absent", <<v>> is "present with value v".       *)
(***************************************************************************)
EXTENDS Integers, Sequences, FiniteSets, TLC

\* ---------------------------------------------------------------- bounds
MaxItems == 2       \* items of a processed fact
MaxAmt == 2         \* item amounts of processed facts are 1..MaxAmt
InitBal == 4        \* balance of a funded account before the operation
MaxSuffix == 2      \* freely chosen items at the end of a fact under validation

maxTransferItems == 10

\* one sender and a distinct receiver for every item
Addr == 1..(MaxItems + 1)

Amounts == 1..MaxAmt

\* ---------------------------------------------------------------- errors
\* An error is a chain of messages (outermost first) and the mark that
\* xerrors.Is(err, util.IgnoreError) reports.  Nil is the nil error.
Nil == [chain |-> <<>>, ignorable |-> FALSE]

Errorf(msg) == [chain |-> <<msg>>, ignorable |-> FALSE]

\* util.IgnoreError.Wrap(err): same cause, marked ignorable
IgnoreErrorWrap(err) == [chain |-> err.chain, ignorable |-> TRUE]

\* util.IgnoreError.Errorf(msg)
IgnoreErrorErrorf(msg) == [chain |-> <<msg>>, ignorable |-> TRUE]

\* xerrors.Errorf("msg: %w", err): a new error in front of the chain; the
\* chain below it (and so the ignorable mark, if any) stays reachable
ErrorfW(msg, err) == [chain |-> <<msg>> \o err.chain, ignorable |-> err.ignorable]

\* ---------------------------------------------------------------- bytes and hashes
\* Byte strings are sequences of naturals; SHA-256 is taken collision free,
\* so a digest is represented by the byte string it was computed from.
NewSHA256(bs) == [wf |-> TRUE, digest |-> bs]

EmptyHash == [wf |-> FALSE, digest |-> <<>>]

\* the bytes of a digest are not the bytes it was computed from: 256, which
\* is no byte value, marks them
HashBytes(h) == <<256>> \o h.digest

AddressBytes(a) == <<a>>

\* big-endian magnitude of the amount: zero has no bytes
AmountBytes(n) == IF n = 0 THEN <<>> ELSE <<n>>

RECURSIVE ConcatBytesSlice(_)
ConcatBytesSlice(bss) ==
    IF bss = <<>> THEN <<>> ELSE Head(bss) \o ConcatBytesSlice(Tail(bss))

\* ---------------------------------------------------------------- TransferItem
NewTransferItem(receiver, amount) == [receiver |-> receiver, amount |-> amount]

TransferItemBytes(it) ==
    ConcatBytesSlice(<<AddressBytes(it.receiver), AmountBytes(it.amount)>>)

\* addresses are positive numbers; 0 stands for a malformed (empty) address.
\* An amount is well-formed when it is not negative.
AddressIsValid(a) == a >= 1

AmountIsValid(n) == n >= 0

TransferItemIsValid(it) ==
    IF ~(AddressIsValid(it.receiver) /\ AmountIsValid(it.amount))
    THEN Errorf("invalid item field")
    ELSE IF it.amount = 0
    THEN Errorf("amount should be over zero")
    ELSE Nil

\* ---------------------------------------------------------------- TransfersFact
TransfersFactBytes(token, sender, items) ==
    ConcatBytesSlice(<<token, AddressBytes(sender),
        ConcatBytesSlice([i \in 1..Len(items) |-> TransferItemBytes(items[i])])>>)

TransfersFactGenerateHash(fact) ==
    NewSHA256(TransfersFactBytes(fact.token, fact.sender, fact.items))

NewTransfersFact(token, sender, items) ==
    [h |-> NewSHA256(TransfersFactBytes(token, sender, items)),
     token |-> token, sender |-> sender, items |-> items]

StateAddressKey(a) == <<a, "address">>

\* the loop of IsValid over items i..Len(items) with the receivers found so far
RECURSIVE IsValidItems(_, _, _)
IsValidItems(fact, i, foundReceivers) ==
    IF i > Len(fact.items) THEN Nil
    ELSE LET it == fact.items[i]
             e == TransferItemIsValid(it)
             k == StateAddressKey(it.receiver)
         IN IF e # Nil THEN e
            ELSE IF k \in foundReceivers THEN Errorf("duplicated receiver found")
            ELSE IF fact.sender = it.receiver THEN Errorf("receiver is same with sender")
            ELSE IsValidItems(fact, i + 1, foundReceivers \cup {k})

\* variant: the hash is verified before the items are scanned
TransfersFactIsValidHashFirst(fact) ==
    IF Len(fact.token) < 1 THEN Errorf("empty token for TransferFact")
    ELSE IF Len(fact.items) < 1 THEN Errorf("empty items")
    ELSE IF Len(fact.items) > maxTransferItems THEN Errorf("items over max")
    ELSE IF ~(fact.h.wf /\ AddressIsValid(fact.sender)) THEN Errorf("invalid hash or sender")
    ELSE IF fact.h # TransfersFactGenerateHash(fact) THEN Errorf("wrong Fact hash")
    ELSE IsValidItems(fact, 1, {})

\* variant: the item-count bound is taken exclusive
TransfersFactIsValidOffByOne(fact) ==
    IF Len(fact.token) < 1 THEN Errorf("empty token for TransferFact")
    ELSE IF Len(fact.items) < 1 THEN Errorf("empty items")
    ELSE IF Len(fact.items) >= maxTransferItems THEN Errorf("items over max")
    ELSE IF ~(fact.h.wf /\ AddressIsValid(fact.sender)) THEN Errorf("invalid hash or sender")
    ELSE LET e == IsValidItems(fact, 1, {})
         IN IF e # Nil THEN e
            ELSE IF fact.h # TransfersFactGenerateHash(fact) THEN Errorf("wrong Fact hash")
            ELSE Nil

TransfersFactIsValid(fact) ==
    IF Len(fact.token) < 1 THEN Errorf("empty token for TransferFact")
    ELSE IF Len(fact.items) < 1 THEN Errorf("empty items")
    ELSE IF Len(fact.items) > maxTransferItems THEN Errorf("items over max")
    ELSE IF ~(fact.h.wf /\ AddressIsValid(fact.sender)) THEN Errorf("invalid hash or sender")
    ELSE LET e == IsValidItems(fact, 1, {})
         IN IF e # Nil THEN e
            ELSE IF fact.h # TransfersFactGenerateHash(fact) THEN Errorf("wrong Fact hash")
            ELSE Nil

RECURSIVE SumAmounts(_)
SumAmounts(items) ==
    IF items = <<>> THEN 0 ELSE Head(items).amount + SumAmounts(Tail(items))

TransfersFactAmount(fact) == SumAmounts(fact.items)

\* variant: the receivers only
TransfersFactAddressesReceivers(fact) ==
    [i \in 1..Len(fact.items) |-> fact.items[i].receiver]

\* the receivers in item order, then the sender
TransfersFactAddresses(fact) ==
    [i \in 1..(Len(fact.items) + 1) |->
        IF i <= Len(fact.items) THEN fact.items[i].receiver ELSE fact.sender]

\* ---------------------------------------------------------------- ledger
StateKeyAccount(a) == <<a, "account">>

StateKeyBalance(a) == <<a, "balance">>

Keys == {StateKeyAccount(a) : a \in Addr} \cup {StateKeyBalance(a) : a \in Addr}

\* the key an account registers for signing
KeyOf(a) == a

\* lookup(key) -> (state, found, error).  failKey is the key, if any, on
\* which the store reports a fault during this call sequence.
getState(ldg, failKey, key) ==
    IF failKey = <<key>>
    THEN [st |-> <<>>, found |-> FALSE, err |-> Errorf("storage fault")]
    ELSE IF ldg[key] = <<>>
    THEN [st |-> <<>>, found |-> FALSE, err |-> Nil]
    ELSE [st |-> <<[key |-> key, value |-> ldg[key][1]]>>, found |-> TRUE, err |-> Nil]

checkExistsAccountState(key, ldg, failKey) ==
    LET r == getState(ldg, failKey, key)
    IN IF r.err # Nil THEN r.err
       ELSE IF ~r.found THEN Errorf("state does not exist")
       ELSE Nil

existsAccountState(k, name, ldg, failKey) ==
    LET r == getState(ldg, failKey, k)
    IN IF r.err # Nil THEN [st |-> <<>>, err |-> r.err]
       ELSE IF ~r.found THEN [st |-> <<>>, err |-> ErrorfW(name, Errorf("does not exist"))]
       ELSE [st |-> r.st, err |-> Nil]

\* the signature set authorizes the account when one of the signatures was
\* made with the key registered in the account's state
checkFactSignsByState(address, signs, ldg, failKey) ==
    LET r == existsAccountState(StateKeyAccount(address), "keys of account", ldg, failKey)
    IN IF r.err # Nil THEN r.err
       ELSE IF \E i \in 1..Len(signs) : signs[i] = r.st[1].value THEN Nil
       ELSE Errorf("not passed threshold")

\* ---------------------------------------------------------------- fee schedule
\* FeeAmount.Fee(amount) -> (fee, error): a fixed fee per item, a ratio of
\* the amount (rounded down), or a schedule that refuses large amounts.
FeeAmounts ==
    {[kind |-> "fixed", v |-> 1], [kind |-> "ratio", v |-> 2], [kind |-> "limited", v |-> 2]}

Fee(fa, amount) ==
    IF fa.kind = "fixed" THEN [fee |-> fa.v, err |-> Nil]
    ELSE IF fa.kind = "ratio" THEN [fee |-> amount \div fa.v, err |-> Nil]
    ELSE IF amount >= fa.v THEN [fee |-> 0, err |-> Errorf("fee: amount over limit")]
    ELSE [fee |-> 0, err |-> Nil]

\* ---------------------------------------------------------------- AmountState
\* a looked-up balance entry with the pending change and the fee charged
NilAmountState == [st |-> <<>>, add |-> 0, fee |-> 0]

NewAmountState(st) == [st |-> <<st>>, add |-> 0, fee |-> 0]

AmountStateAdd(as, a) == [as EXCEPT !.add = @ + a]

AmountStateSub(as, a) == [as EXCEPT !.add = @ - a]

AmountStateAddFee(as, fee) == [as EXCEPT !.fee = @ + fee]

StateAmountValue(st) == st.value

\* the balance an AmountState records once it is committed
AmountStateBalance(as) == as.st[1].value + as.add

\* ---------------------------------------------------------------- TransferProcessor
\* Every processor method returns, next to its Go results, the commit calls
\* it made: [h, sts, err], err being the store's answer.
NewTransferProcessor(h, item) == [h |-> h, fact |-> item, rb |-> NilAmountState]

\* variant: the receiver's credit is committed as soon as it is resolved
TransferProcessorPreProcessCommits(c, ldg, failKey) ==
    LET r1 == existsAccountState(StateKeyAccount(c.fact.receiver), "keys of receiver", ldg, failKey)
        r2 == existsAccountState(StateKeyBalance(c.fact.receiver), "balance of receiver", ldg, failKey)
    IN IF r1.err # Nil THEN [c |-> c, err |-> r1.err, calls |-> <<>>]
       ELSE IF r2.err # Nil THEN [c |-> c, err |-> r2.err, calls |-> <<>>]
       ELSE [c |-> [c EXCEPT !.rb = NewAmountState(r2.st[1])], err |-> Nil,
             calls |-> <<[h |-> c.h, err |-> Nil,
                          sts |-> <<AmountStateAdd(NewAmountState(r2.st[1]), c.fact.amount)>>]>>]

\* variant: the balance is looked up under the key of address 1
TransferProcessorPreProcessFixedKey(c, ldg, failKey) ==
    LET r1 == existsAccountState(StateKeyAccount(c.fact.receiver), "keys of receiver", ldg, failKey)
        r2 == existsAccountState(StateKeyBalance(1), "balance of receiver", ldg, failKey)
    IN IF r1.err # Nil THEN [c |-> c, err |-> r1.err, calls |-> <<>>]
       ELSE IF r2.err # Nil THEN [c |-> c, err |-> r2.err, calls |-> <<>>]
       ELSE [c |-> [c EXCEPT !.rb = NewAmountState(r2.st[1])], err |-> Nil, calls |-> <<>>]

TransferProcessorPreProcess(c, ldg, failKey) ==
    LET r1 == existsAccountState(StateKeyAccount(c.fact.receiver), "keys of receiver", ldg, failKey)
        r2 == existsAccountState(StateKeyBalance(c.fact.receiver), "balance of receiver", ldg, failKey)
    IN IF r1.err # Nil THEN [c |-> c, err |-> r1.err, calls |-> <<>>]
       ELSE IF r2.err # Nil THEN [c |-> c, err |-> r2.err, calls |-> <<>>]
       ELSE [c |-> [c EXCEPT !.rb = NewAmountState(r2.st[1])], err |-> Nil, calls |-> <<>>]

TransferProcessorProcess(c) ==
    [st |-> AmountStateAdd(c.rb, c.fact.amount), err |-> Nil, calls |-> <<>>]

\* ---------------------------------------------------------------- Transfers (envelope)
FactSignBytes(fs) == <<fs>>

TransfersGenerateHash(factHash, signs, memo) ==
    LET bs == [i \in 1..(Len(signs) + 1) |->
                  IF i <= Len(signs) THEN FactSignBytes(signs[i]) ELSE memo]
    IN NewSHA256(ConcatBytesSlice(<<HashBytes(factHash), ConcatBytesSlice(bs)>>))

NewTransfers(fact, fs, memo) ==
    [fact |-> fact, signs |-> fs, memo |-> memo,
     h |-> TransfersGenerateHash(fact.h, fs, memo)]

\* ---------------------------------------------------------------- TransfersProcessor
NewTransfersProcessor(op, fa) ==
    [op |-> op, fa |-> fa, sb |-> NilAmountState, fee |-> <<>>, rb |-> <<>>]

RECURSIVE calculateFeeFrom(_, _, _)
calculateFeeFrom(tf, i, sum) ==
    IF i > Len(tf.op.fact.items) THEN [fee |-> sum, err |-> Nil]
    ELSE LET r == Fee(tf.fa, tf.op.fact.items[i].amount)
         IN IF r.err # Nil THEN [fee |-> 0, err |-> r.err]
            ELSE calculateFeeFrom(tf, i + 1, sum + r.fee)

\* variant: the schedule is applied once, to the summed principal
calculateFeeOfSum(tf) ==
    LET r == Fee(tf.fa, TransfersFactAmount(tf.op.fact))
    IN IF r.err # Nil THEN [fee |-> 0, err |-> r.err] ELSE [fee |-> r.fee, err |-> Nil]

\* variant: the fee of the first item only
calculateFeeFirstItem(tf) ==
    LET r == Fee(tf.fa, tf.op.fact.items[1].amount)
    IN IF r.err # Nil THEN [fee |-> 0, err |-> r.err] ELSE [fee |-> r.fee, err |-> Nil]

calculateFee(tf) == calculateFeeFrom(tf, 1, 0)

\* lines 323-331: one TransferProcessor per item, stopping at the first failure
RECURSIVE PreProcessItems(_, _, _, _, _, _)
PreProcessItems(tf, i, rb, cs, ldg, failKey) ==
    IF i > Len(tf.op.fact.items) THEN [rb |-> rb, err |-> Nil, calls |-> cs]
    ELSE LET r == TransferProcessorPreProcess(
                      NewTransferProcessor(tf.op.h, tf.op.fact.items[i]), ldg, failKey)
         IN IF r.err # Nil
            THEN [rb |-> <<>>, err |-> IgnoreErrorWrap(r.err), calls |-> cs \o r.calls]
            ELSE PreProcessItems(tf, i + 1, Append(rb, r.c), cs \o r.calls, ldg, failKey)

\* lines 323-339, entered with the sender balance and the fee already stored
PreProcessReceivers(tf, ldg, failKey) ==
    LET r == PreProcessItems(tf, 1, <<>>, <<>>, ldg, failKey)
        es == checkFactSignsByState(tf.op.fact.sender, tf.op.signs, ldg, failKey)
    IN IF r.err # Nil THEN [tf |-> tf, err |-> r.err, calls |-> r.calls]
       ELSE IF es # Nil
       THEN [tf |-> tf, err |-> ErrorfW("invalid signing", es), calls |-> r.calls]
       ELSE [tf |-> [tf EXCEPT !.rb = r.rb], err |-> Nil, calls |-> r.calls]

\* variant: the fee is left out of the solvency check
PreProcessSolventNoFee(b, fact, fee) == ~(b < TransfersFactAmount(fact))

\* lines 312-320: the solvency check
PreProcessSolvent(b, fact, fee) == ~(b < TransfersFactAmount(fact) + fee)

\* variant: an insufficient balance is reported as a plain error
TransfersProcessorPreProcessPlain(tf, ldg, failKey) ==
    LET fact == tf.op.fact
        e1 == checkExistsAccountState(StateKeyAccount(fact.sender), ldg, failKey)
        r2 == existsAccountState(StateKeyBalance(fact.sender), "balance of sender", ldg, failKey)
        rf == calculateFee(tf)
    IN IF e1 # Nil THEN [tf |-> tf, err |-> e1, calls |-> <<>>]
       ELSE IF r2.err # Nil THEN [tf |-> tf, err |-> r2.err, calls |-> <<>>]
       ELSE IF rf.err # Nil THEN [tf |-> tf, err |-> IgnoreErrorWrap(rf.err), calls |-> <<>>]
       ELSE IF ~PreProcessSolvent(StateAmountValue(r2.st[1]), fact, rf.fee)
       THEN [tf |-> tf, err |-> Errorf("insufficient balance of sender"), calls |-> <<>>]
       ELSE PreProcessReceivers(
                [tf EXCEPT !.sb = NewAmountState(r2.st[1]), !.fee = <<rf.fee>>], ldg, failKey)

\* the processor after the call, the error returned and the commit calls made
TransfersProcessorPreProcess(tf, ldg, failKey) ==
    LET fact == tf.op.fact
        e1 == checkExistsAccountState(StateKeyAccount(fact.sender), ldg, failKey)
        r2 == existsAccountState(StateKeyBalance(fact.sender), "balance of sender", ldg, failKey)
        rf == calculateFee(tf)
    IN IF e1 # Nil THEN [tf |-> tf, err |-> e1, calls |-> <<>>]
       ELSE IF r2.err # Nil THEN [tf |-> tf, err |-> r2.err, calls |-> <<>>]
       ELSE IF rf.err # Nil THEN [tf |-> tf, err |-> IgnoreErrorWrap(rf.err), calls |-> <<>>]
       ELSE IF ~PreProcessSolvent(StateAmountValue(r2.st[1]), fact, rf.fee)
       THEN [tf |-> tf, err |-> IgnoreErrorErrorf("insufficient balance of sender"),
             calls |-> <<>>]
       ELSE PreProcessReceivers(
                [tf EXCEPT !.sb = NewAmountState(r2.st[1]), !.fee = <<rf.fee>>], ldg, failKey)

\* lines 348-355: the credited state of every resolved item
RECURSIVE ProcessItems(_, _, _, _)
ProcessItems(tf, i, sts, cs) ==
    IF i > Len(tf.rb) THEN [sts |-> sts, err |-> Nil, calls |-> cs]
    ELSE LET r == TransferProcessorProcess(tf.rb[i])
         IN IF r.err # Nil
            THEN [sts |-> sts, calls |-> cs \o r.calls,
                  err |-> [chain |-> <<"failed to process transfer item">> \o r.err.chain,
                           ignorable |-> TRUE]]
            ELSE ProcessItems(tf, i + 1, Append(sts, r.st), cs \o r.calls)

\* variant: the sender is debited the principal only
ProcessSenderNoFee(tf) ==
    AmountStateAddFee(AmountStateSub(tf.sb, TransfersFactAmount(tf.op.fact)), tf.fee[1])

\* line 357: the sender's final state
ProcessSender(tf) ==
    AmountStateAddFee(
        AmountStateSub(tf.sb, TransfersFactAmount(tf.op.fact) + tf.fee[1]), tf.fee[1])

\* variant: the receivers and the sender are committed in two calls
ProcessCommitSplit(h, sts, commitErr) ==
    [panic |-> FALSE, err |-> commitErr,
     calls |-> <<[h |-> h, sts |-> SubSeq(sts, 1, Len(sts) - 1), err |-> commitErr],
                 [h |-> h, sts |-> <<sts[Len(sts)]>>, err |-> commitErr]>>]

\* variant: the store's error is returned as an ignorable one
ProcessCommitIgnorable(h, sts, commitErr) ==
    [panic |-> FALSE,
     err |-> IF commitErr = Nil THEN Nil ELSE IgnoreErrorWrap(commitErr),
     calls |-> <<[h |-> h, sts |-> sts, err |-> commitErr]>>]

\* lines 357-359: the commit; Process returns what the store answers
ProcessCommit(h, sts, commitErr) ==
    [panic |-> FALSE, err |-> commitErr,
     calls |-> <<[h |-> h, sts |-> sts, err |-> commitErr]>>]

\* variant: the commit is made under the envelope's hash
TransfersProcessorProcessEnvelopeHash(tf, commitErr) ==
    LET r == ProcessItems(tf, 1, <<>>, <<>>)
    IN IF r.err # Nil THEN [panic |-> FALSE, err |-> r.err, calls |-> r.calls]
       ELSE IF tf.sb = NilAmountState THEN [panic |-> TRUE, err |-> Nil, calls |-> r.calls]
       ELSE LET c == ProcessCommit(tf.op.h, Append(r.sts, ProcessSender(tf)), commitErr)
            IN [panic |-> FALSE, err |-> c.err, calls |-> r.calls \o c.calls]

\* commitErr is what the store answers to a commit.  Arithmetic on a sender
\* balance that was never resolved panics.
TransfersProcessorProcess(tf, commitErr) ==
    LET r == ProcessItems(tf, 1, <<>>, <<>>)
    IN IF r.err # Nil THEN [panic |-> FALSE, err |-> r.err, calls |-> r.calls]
       ELSE IF tf.sb = NilAmountState THEN [panic |-> TRUE, err |-> Nil, calls |-> r.calls]
       ELSE LET c == ProcessCommit(tf.op.fact.h, Append(r.sts, ProcessSender(tf)), commitErr)
            IN [panic |-> FALSE, err |-> c.err, calls |-> r.calls \o c.calls]

\* ---------------------------------------------------------------- keys looked up
\* The keys a PreProcess hands to the lookup function, in call order; a
\* failed call ends the sequence as it ends the PreProcess.
TransferProcessorLookups(c, ldg, failKey) ==
    LET r1 == existsAccountState(StateKeyAccount(c.fact.receiver), "keys of receiver", ldg, failKey)
    IN <<StateKeyAccount(c.fact.receiver)>>
       \o (IF r1.err # Nil THEN <<>> ELSE <<StateKeyBalance(c.fact.receiver)>>)

RECURSIVE PreProcessItemsLookups(_, _, _, _)
PreProcessItemsLookups(tf, i, ldg, failKey) ==
    IF i > Len(tf.op.fact.items) THEN <<>>
    ELSE LET c == NewTransferProcessor(tf.op.h, tf.op.fact.items[i])
         IN TransferProcessorLookups(c, ldg, failKey)
            \o (IF TransferProcessorPreProcess(c, ldg, failKey).err # Nil THEN <<>>
                ELSE PreProcessItemsLookups(tf, i + 1, ldg, failKey))

TransfersProcessorLookups(tf, ldg, failKey) ==
    LET fact == tf.op.fact
        e1 == checkExistsAccountState(StateKeyAccount(fact.sender), ldg, failKey)
        r2 == existsAccountState(StateKeyBalance(fact.sender), "balance of sender", ldg, failKey)
        rf == calculateFee(tf)
    IN <<StateKeyAccount(fact.sender)>>
       \o (IF e1 # Nil THEN <<>>
           ELSE <<StateKeyBalance(fact.sender)>>
                \o (IF \/ r2.err # Nil
                       \/ rf.err # Nil
                       \/ ~PreProcessSolvent(StateAmountValue(r2.st[1]), fact, rf.fee)
                    THEN <<>>
                    ELSE PreProcessItemsLookups(tf, 1, ldg, failKey)
                         \o (IF PreProcessItems(tf, 1, <<>>, <<>>, ldg, failKey).err # Nil
                             THEN <<>>
                             ELSE <<StateKeyAccount(fact.sender)>>)))

\* ---------------------------------------------------------------- store
\* commit(hash, states...): all entries are written, or none when it fails
RECURSIVE setState(_, _)
setState(ldg, sts) ==
    IF sts = <<>> THEN ldg
    ELSE setState([ldg EXCEPT ![Head(sts).st[1].key] = <<AmountStateBalance(Head(sts))>>],
                  Tail(sts))

RECURSIVE ApplyCalls(_, _)
ApplyCalls(ldg, cs) ==
    IF cs = <<>> THEN ldg
    ELSE ApplyCalls(IF Head(cs).err = Nil THEN setState(ldg, Head(cs).sts) ELSE ldg, Tail(cs))

CommitErrors == {Nil, Errorf("storage fault")}

\* ---------------------------------------------------------------- state machine
VARIABLES
    ledger,     \* key -> <<>> or <<value>>
    before,     \* the ledger when the operation was handed to the processor
    tf,         \* the TransfersProcessor executing the operation
    pc,         \* "created", "preprocessed", "rejected", "committed", "failed",
                \* "panicked"; "new", "checked" for a fact under validation
    ppc,        \* pc at the moment Process was called, "" before
    fault,      \* the key on which the store faulted during PreProcess, if any
    perr,       \* error returned by PreProcess
    xerr,       \* error returned by Process
    calls,      \* commit calls made for this operation, tagged with their caller
    vfact,      \* the fact under validation
    verr,       \* error returned by TransfersFact.IsValid
    lookups,    \* the keys PreProcess looked up, in call order
    other,      \* a second processor instance with its own operation
    envs,       \* the envelope values made by NewTransfers and AddFactSigns
    seal,       \* the seal given to the create-account command and the one it wrote
    lk          \* a lookup outcome and what the existence helpers made of it

vars == <<ledger, before, tf, pc, ppc, fault, perr, xerr, calls, vfact, verr,
          lookups, other, envs, seal, lk>>

Tokens == {<<7>>}

Memos == {<<>>}

ItemSeqs ==
    UNION {[1..n -> [receiver : Addr, amount : Amounts]] : n \in 1..MaxItems}

\* operations reach the processor only after IsValid accepted their fact
ValidFacts ==
    {f \in {NewTransfersFact(t, s, its) : t \in Tokens, s \in Addr, its \in ItemSeqs} :
        TransfersFactIsValid(f) = Nil}

\* a signature made with the sender's registered key, or with a foreign key
SignSets(sender) == {<<KeyOf(sender)>>, <<0>>}

Processors ==
    UNION {{NewTransfersProcessor(NewTransfers(f, fs, m), fa) :
               fs \in SignSets(f.sender), m \in Memos, fa \in FeeAmounts} : f \in ValidFacts}

\* no fact is under validation while an operation is processed, and no
\* processor exists while a fact is validated
NoFact == NewTransfersFact(<<>>, 0, <<>>)

NoProcessor == NewTransfersProcessor(NewTransfers(NoFact, <<>>, <<>>), [kind |-> "fixed", v |-> 0])

\* the keys of the address whose records may be absent or faulty; the sender
\* and the receivers range over all addresses, so it plays every role
OddKeys == {StateKeyAccount(1), StateKeyBalance(1)}

\* ledgers an operation may meet: every account registered and funded with
\* InitBal, except that address 1 either holds any balance up to InitBal or
\* lacks one of its records
InitLedgers ==
    {[k \in Keys |-> IF k[2] = "account" THEN <<KeyOf(k[1])>>
                     ELSE IF k[1] = 1 THEN <<b>> ELSE <<InitBal>>] : b \in 0..InitBal}
    \cup
    {[k \in Keys |-> IF k = miss THEN <<>>
                     ELSE IF k[2] = "account" THEN <<KeyOf(k[1])>> ELSE <<InitBal>>] :
        miss \in OddKeys}

\* the parts of the state a behaviour does not use
NoOther == [tf |-> NoProcessor, pc |-> "", perr |-> Nil, ledger |-> <<>>, seen |-> <<>>]

NoSeal == [given |-> <<>>, written |-> <<>>, err |-> Nil]

NoLookup == [key |-> <<>>, name |-> "", out |-> <<>>, results |-> <<>>]

IdleProcessor ==
    /\ ledger = [k \in Keys |-> <<>>]
    /\ before = ledger
    /\ tf = NoProcessor
    /\ ppc = ""
    /\ fault = <<>>
    /\ perr = Nil
    /\ xerr = Nil
    /\ calls = <<>>
    /\ lookups = <<>>

IdleValid == vfact = NoFact /\ verr = Nil

IdleOther == other = NoOther

IdleEnvelope == envs = <<>>

IdleCommand == seal = NoSeal

IdleLookup == lk = NoLookup

\* the engine hands a valid operation to a fresh processor
Init ==
    /\ ledger \in InitLedgers
    /\ before = ledger
    /\ tf \in Processors
    /\ pc = "created"
    /\ ppc = ""
    /\ fault = <<>>
    /\ perr = Nil
    /\ xerr = Nil
    /\ calls = <<>>
    /\ lookups = <<>>
    /\ IdleValid /\ IdleOther /\ IdleEnvelope /\ IdleCommand /\ IdleLookup

Tag(cs, who) ==
    [i \in 1..Len(cs) |-> [h |-> cs[i].h, sts |-> cs[i].sts, err |-> cs[i].err, by |-> who]]

PreProcess ==
    /\ pc = "created"
    /\ \E failKey \in {<<>>} \cup {<<k>> : k \in OddKeys} :
          \E r \in {TransfersProcessorPreProcess(tf, ledger, failKey)} :
             /\ tf' = r.tf
             /\ perr' = r.err
             /\ fault' = failKey
             /\ pc' = IF r.err = Nil THEN "preprocessed" ELSE "rejected"
             /\ calls' = calls \o Tag(r.calls, "PreProcess")
             /\ ledger' = ApplyCalls(ledger, r.calls)
             /\ lookups' = TransfersProcessorLookups(tf, ledger, failKey)
    /\ UNCHANGED <<before, ppc, xerr, vfact, verr, other, envs, seal, lk>>

\* nothing in the code keeps Process from being called on an instance that
\* was never pre-processed or whose PreProcess failed
Process ==
    /\ pc \in {"created", "preprocessed", "rejected"}
    /\ \E commitErr \in CommitErrors :
          \E r \in {TransfersProcessorProcess(tf, commitErr)} :
             /\ xerr' = r.err
             /\ pc' = IF r.panic THEN "panicked"
                      ELSE IF r.err = Nil THEN "committed" ELSE "failed"
             /\ calls' = calls \o Tag(r.calls, "Process")
             /\ ledger' = ApplyCalls(ledger, r.calls)
    /\ ppc' = pc
    /\ UNCHANGED <<before, tf, fault, perr, vfact, verr, lookups, other, envs, seal, lk>>

Next == PreProcess \/ Process

Spec == Init /\ [][Next]_vars

\* ---------------------------------------------------------------- validation of facts
\* Facts handed to IsValid: k well-formed items to distinct receivers
\* 2..k+1 (none, one, or a number around the maximum), then up to MaxSuffix
\* freely chosen items; the sender is address 1
\* or malformed; the stored hash is the computed one, an empty one, or the
\* hash of other content.
Prefix(k) == [i \in 1..k |-> NewTransferItem(i + 1, 1)]

PrefixLengths == {0, 1, maxTransferItems - 1, maxTransferItems, maxTransferItems + 1}

SuffixItems == [receiver : {0, 1, 2, maxTransferItems + 3}, amount : {-1, 0, 1}]

Suffixes == UNION {[1..n -> SuffixItems] : n \in 0..MaxSuffix}

CandidateFacts ==
    {[NewTransfersFact(t, s, Prefix(k) \o sfx) EXCEPT !.h = IF h = <<>> THEN @ ELSE h[1]] :
        t \in {<<>>, <<7>>}, s \in {0, 1}, k \in PrefixLengths, sfx \in Suffixes,
        h \in {<<>>, <<EmptyHash>>, <<NewSHA256(<<9>>)>>}}

InitValid ==
    /\ pc = "new"
    /\ vfact \in CandidateFacts
    /\ verr = Nil
    /\ IdleProcessor /\ IdleOther /\ IdleEnvelope /\ IdleCommand /\ IdleLookup

IsValid ==
    /\ pc = "new"
    /\ verr' = TransfersFactIsValid(vfact)
    /\ pc' = "checked"
    /\ UNCHANGED <<ledger, before, tf, ppc, fault, perr, xerr, calls, vfact,
                   lookups, other, envs, seal, lk>>

NextValid == IsValid

SpecValid == InitValid /\ [][NextValid]_vars

\* ---------------------------------------------------------------- two processor instances
\* The steps of a processor as the engine drives it when the store is sound:
\* PreProcess, and Process after a PreProcess that succeeded.
FirstPreProcess ==
    /\ pc = "created"
    /\ \E r \in {TransfersProcessorPreProcess(tf, ledger, <<>>)} :
          /\ tf' = r.tf
          /\ perr' = r.err
          /\ pc' = IF r.err = Nil THEN "preprocessed" ELSE "rejected"
          /\ calls' = calls \o Tag(r.calls, "PreProcess")
          /\ ledger' = ApplyCalls(ledger, r.calls)
    /\ lookups' = TransfersProcessorLookups(tf, ledger, <<>>)
    /\ UNCHANGED <<before, ppc, fault, xerr, vfact, verr, other, envs, seal, lk>>

FirstProcess ==
    /\ pc = "preprocessed"
    /\ \E r \in {TransfersProcessorProcess(tf, Nil)} :
          /\ xerr' = r.err
          /\ pc' = IF r.err = Nil THEN "committed" ELSE "failed"
          /\ calls' = calls \o Tag(r.calls, "Process")
          /\ ledger' = ApplyCalls(ledger, r.calls)
    /\ ppc' = pc
    /\ UNCHANGED <<before, tf, fault, perr, vfact, verr, lookups, other, envs, seal, lk>>

\* ---- the same transfers in another item order, against the same ledger
ItemOrders(n) == {p \in [1..n -> 1..n] : \A i, j \in 1..n : i # j => p[i] # p[j]}

Permuted(fact, p) ==
    NewTransfersFact(fact.token, fact.sender, [i \in 1..Len(fact.items) |-> fact.items[p[i]]])

InitPerm ==
    /\ pc = "created"
    /\ ledger \in InitLedgers
    /\ before = ledger
    /\ \E f \in ValidFacts, fa \in FeeAmounts :
          \E p \in ItemOrders(Len(f.items)) :
             /\ Permuted(f, p) # f
             /\ tf = NewTransfersProcessor(NewTransfers(f, <<KeyOf(f.sender)>>, <<>>), fa)
             /\ other = [tf |-> NewTransfersProcessor(
                                    NewTransfers(Permuted(f, p), <<KeyOf(f.sender)>>, <<>>), fa),
                         pc |-> "created", perr |-> Nil, ledger |-> ledger, seen |-> <<>>]
    /\ ppc = "" /\ fault = <<>> /\ perr = Nil /\ xerr = Nil /\ calls = <<>> /\ lookups = <<>>
    /\ IdleValid /\ IdleEnvelope /\ IdleCommand /\ IdleLookup

\* the second instance runs on its own copy of the ledger, once the first
\* is through
PermPreProcess ==
    /\ pc \in {"rejected", "committed"}
    /\ other.pc = "created"
    /\ \E r \in {TransfersProcessorPreProcess(other.tf, other.ledger, <<>>)} :
          other' = [other EXCEPT !.tf = r.tf, !.perr = r.err,
                                 !.pc = IF r.err = Nil THEN "preprocessed" ELSE "rejected",
                                 !.ledger = ApplyCalls(@, r.calls),
                                 !.seen = Append(@, pc)]
    /\ UNCHANGED <<ledger, before, tf, pc, ppc, fault, perr, xerr, calls, vfact, verr,
                   lookups, envs, seal, lk>>

PermProcess ==
    /\ other.pc = "preprocessed"
    /\ \E r \in {TransfersProcessorProcess(other.tf, Nil)} :
          other' = [other EXCEPT !.pc = IF r.err = Nil THEN "committed" ELSE "failed",
                                 !.ledger = ApplyCalls(@, r.calls),
                                 !.seen = Append(@, pc)]
    /\ UNCHANGED <<ledger, before, tf, pc, ppc, fault, perr, xerr, calls, vfact, verr,
                   lookups, envs, seal, lk>>

NextPerm == FirstPreProcess \/ FirstProcess \/ PermPreProcess \/ PermProcess

SpecPerm == InitPerm /\ [][NextPerm]_vars

\* ---- two operations on disjoint accounts, one ledger
\* The second operation's accounts are those of the first, shifted.
Shift == MaxItems + 1

ConcAddr == 1..(2 * Shift)

ConcKeys ==
    {StateKeyAccount(a) : a \in ConcAddr} \cup {StateKeyBalance(a) : a \in ConcAddr}

\* every account registered; the sender-to-be of each block holds any
\* balance (the second: little or InitBal), the others InitBal
ConcLedgers ==
    {[k \in ConcKeys |-> IF k[2] = "account" THEN <<KeyOf(k[1])>>
                         ELSE IF k[1] = 1 THEN <<b1>>
                         ELSE IF k[1] = Shift + 1 THEN <<b2>> ELSE <<InitBal>>] :
        b1 \in 0..InitBal, b2 \in {1, InitBal}}

\* n items of the same amount from sender to the other accounts of its block
ConcFact(base, sender, n, amt) ==
    LET rs == [i \in 1..n |-> base + (IF i < sender THEN i ELSE i + 1)]
    IN NewTransfersFact(<<7>>, base + sender, [i \in 1..n |-> NewTransferItem(rs[i], amt)])

ConcProcessor(f, fa) == NewTransfersProcessor(NewTransfers(f, <<KeyOf(f.sender)>>, <<>>), fa)

InitConc ==
    /\ pc = "created"
    /\ ledger \in ConcLedgers
    /\ before = ledger
    /\ \E fa \in FeeAmounts, s \in Addr, n1, n2 \in 1..MaxItems, a1, a2 \in Amounts :
          /\ tf = ConcProcessor(ConcFact(0, s, n1, a1), fa)
          /\ other = [tf |-> ConcProcessor(ConcFact(Shift, 1, n2, a2), fa),
                      pc |-> "created", perr |-> Nil, ledger |-> <<>>, seen |-> <<>>]
    /\ ppc = "" /\ fault = <<>> /\ perr = Nil /\ xerr = Nil /\ calls = <<>> /\ lookups = <<>>
    /\ IdleValid /\ IdleEnvelope /\ IdleCommand /\ IdleLookup

\* the second instance works on the same ledger, at any moment
ConcPreProcess ==
    /\ other.pc = "created"
    /\ \E r \in {TransfersProcessorPreProcess(other.tf, ledger, <<>>)} :
          /\ other' = [other EXCEPT !.tf = r.tf, !.perr = r.err,
                                    !.pc = IF r.err = Nil THEN "preprocessed" ELSE "rejected",
                                    !.seen = Append(@, pc)]
          /\ ledger' = ApplyCalls(ledger, r.calls)
    /\ UNCHANGED <<before, tf, pc, ppc, fault, perr, xerr, calls, vfact, verr,
                   lookups, envs, seal, lk>>

ConcProcess ==
    /\ other.pc = "preprocessed"
    /\ \E r \in {TransfersProcessorProcess(other.tf, Nil)} :
          /\ other' = [other EXCEPT !.pc = IF r.err = Nil THEN "committed" ELSE "failed",
                                    !.seen = Append(@, pc)]
          /\ ledger' = ApplyCalls(ledger, r.calls)
    /\ UNCHANGED <<before, tf, pc, ppc, fault, perr, xerr, calls, vfact, verr,
                   lookups, envs, seal, lk>>

NextConc == FirstPreProcess \/ FirstProcess \/ ConcPreProcess \/ ConcProcess

SpecConc == InitConc /\ [][NextConc]_vars

\* ---------------------------------------------------------------- signing an envelope
\* BaseOperation.AddFactSigns: the signatures are appended to a copy of the
\* list, unless the operation refuses them
BaseOperationAddFactSigns(bo, fs, refused) ==
    IF refused THEN [bo |-> <<>>, err |-> Errorf("failed to add fact signs")]
    ELSE [bo |-> <<[bo EXCEPT !.signs = @ \o fs]>>, err |-> Nil]

\* variant: the hash is left as it was
TransfersAddFactSignsStaleHash(tf0, fs, refused) ==
    LET r == BaseOperationAddFactSigns(tf0, fs, refused)
    IN IF r.err # Nil THEN [op |-> <<>>, self |-> tf0, err |-> r.err]
       ELSE [op |-> r.bo, self |-> tf0, err |-> Nil]

\* lines 222-232.  The receiver is a value: what the method assigns is
\* assigned to its own copy, self is the caller's value after the call
TransfersAddFactSigns(tf0, fs, refused) ==
    LET r == BaseOperationAddFactSigns(tf0, fs, refused)
    IN IF r.err # Nil THEN [op |-> <<>>, self |-> tf0, err |-> r.err]
       ELSE LET o == r.bo[1]
            IN [op |-> <<[o EXCEPT !.h = TransfersGenerateHash(o.fact.h, o.signs, o.memo)]>>,
                self |-> tf0, err |-> Nil]

\* calls of AddFactSigns in one behaviour
MaxAdds == 2

SignMemos == {<<>>, <<5>>}

SignFacts == {f \in ValidFacts : Len(f.items) = 1 /\ f.items[1].amount = 1}

\* one or two signatures handed over in one call
SignBatches == UNION {[1..n -> {1, 2}] : n \in 1..2}

InitSign ==
    /\ pc = "signing"
    /\ \E f \in SignFacts, fs \in {<<>>, <<3>>}, m \in SignMemos :
          envs = <<NewTransfers(f, fs, m)>>
    /\ IdleProcessor /\ IdleValid /\ IdleOther /\ IdleCommand /\ IdleLookup

\* AddFactSigns on the newest envelope; the value it was called on stays in
\* the caller's hands
AddFactSigns ==
    /\ pc = "signing"
    /\ Len(envs) <= MaxAdds
    /\ \E fs \in SignBatches, refused \in BOOLEAN :
          \E r \in {TransfersAddFactSigns(envs[Len(envs)], fs, refused)} :
             /\ perr' = r.err
             /\ envs' = [envs EXCEPT ![Len(envs)] = r.self] \o r.op
    /\ UNCHANGED <<ledger, before, tf, pc, ppc, fault, xerr, calls, vfact, verr,
                   lookups, other, seal, lk>>

NextSign == AddFactSigns

SpecSign == InitSign /\ [][NextSign]_vars

\* ---------------------------------------------------------------- existence helpers
\* extension/state.go.  out is what getState answered for the key: a state
\* (or none), the found flag and an error (or Nil).  The text of a reason
\* error is kept without the key it quotes.
NewBaseReasonError(msg) == [chain |-> <<msg>>, ignorable |-> FALSE]

checkExistsState(key, out) ==
    IF out.err # Nil THEN out.err
    ELSE IF ~out.found THEN NewBaseReasonError("state does not exist")
    ELSE Nil

\* variant: the found flag is looked at before the error
existsStateFoundFirst(k, name, out) ==
    IF ~out.found THEN [st |-> <<>>, err |-> [chain |-> <<name, "does not exist">>, ignorable |-> FALSE]]
    ELSE IF out.err # Nil THEN [st |-> <<>>, err |-> out.err]
    ELSE [st |-> out.st, err |-> Nil]

existsState(k, name, out) ==
    IF out.err # Nil THEN [st |-> <<>>, err |-> out.err]
    ELSE IF ~out.found
    THEN [st |-> <<>>, err |-> [chain |-> <<name, "does not exist">>, ignorable |-> FALSE]]
    ELSE [st |-> out.st, err |-> Nil]

notExistsState(k, name, out) ==
    IF out.err # Nil THEN [st |-> <<>>, err |-> out.err]
    ELSE IF out.found
    THEN [st |-> <<>>, err |-> [chain |-> <<name, "already exists">>, ignorable |-> FALSE]]
    ELSE [st |-> out.st, err |-> Nil]

\* everything a lookup function may answer, the combinations a store would
\* not produce included
LookupOutcomes(key) ==
    [st : {<<>>} \cup {<<[key |-> key, value |-> v]>> : v \in 0..InitBal},
     found : BOOLEAN,
     err : {Nil, Errorf("storage fault")}]

NotCalled == [check |-> <<>>, exists |-> <<>>, notExists |-> <<>>]

InitState ==
    /\ pc = "lookup"
    /\ ledger \in InitLedgers
    /\ before = ledger
    /\ \E key \in Keys : \E out \in LookupOutcomes(key) :
          lk = [key |-> key, name |-> "state", out |-> out, results |-> NotCalled]
    /\ tf = NoProcessor /\ ppc = "" /\ fault = <<>> /\ perr = Nil /\ xerr = Nil
    /\ calls = <<>> /\ lookups = <<>>
    /\ IdleValid /\ IdleOther /\ IdleEnvelope /\ IdleCommand

CheckExistsState ==
    /\ pc = "lookup"
    /\ lk.results.check = <<>>
    /\ lk' = [lk EXCEPT !.results.check = <<checkExistsState(lk.key, lk.out)>>]
    /\ UNCHANGED <<ledger, before, tf, pc, ppc, fault, perr, xerr, calls, vfact, verr,
                   lookups, other, envs, seal>>

ExistsState ==
    /\ pc = "lookup"
    /\ lk.results.exists = <<>>
    /\ lk' = [lk EXCEPT !.results.exists = <<existsState(lk.key, lk.name, lk.out)>>]
    /\ UNCHANGED <<ledger, before, tf, pc, ppc, fault, perr, xerr, calls, vfact, verr,
                   lookups, other, envs, seal>>

NotExistsState ==
    /\ pc = "lookup"
    /\ lk.results.notExists = <<>>
    /\ lk' = [lk EXCEPT !.results.notExists = <<notExistsState(lk.key, lk.name, lk.out)>>]
    /\ UNCHANGED <<ledger, before, tf, pc, ppc, fault, perr, xerr, calls, vfact, verr,
                   lookups, other, envs, seal>>

NextState == CheckExistsState \/ ExistsState \/ NotExistsState

SpecState == InitState /\ [][NextState]_vars

\* ---------------------------------------------------------------- create-account command
\* cmds/create_account.go.  An operation of a seal is its type and its
\* items; the seal argument is absent (nil), blank, or the bytes of a seal.
MaxSealOps == 2

NewCreateAccountItem(id) == [of |-> "CreateAccounts", id |-> id]

SealItems(kind) == {[of |-> kind, id |-> id] : id \in 1..2}

SealOperations ==
    UNION {{[kind |-> kind, items |-> its] :
               its \in UNION {[1..n -> SealItems(kind)] : n \in 1..2}} :
           kind \in {"CreateAccounts", "Transfers"}}

SealArguments ==
    {[bytes |-> "nil", ops |-> <<>>], [bytes |-> "blank", ops |-> <<>>]}
    \cup {[bytes |-> "seal", ops |-> ops] :
             ops \in UNION {[1..n -> SealOperations] : n \in 1..MaxSealOps}}

\* lines 114-118: the items of the seal's CreateAccounts operation; each
\* such operation overwrites what the one before left
RECURSIVE SealCreateAccountsItems(_, _)
SealCreateAccountsItems(ops, items) ==
    IF ops = <<>> THEN items
    ELSE SealCreateAccountsItems(
             Tail(ops), IF Head(ops).kind = "CreateAccounts" THEN Head(ops).items ELSE items)

\* the operation the command builds: the items found in the seal, then the
\* new item
createOperation(arg, item) ==
    IF arg.bytes = "seal"
    THEN [kind |-> "CreateAccounts", items |-> Append(SealCreateAccountsItems(arg.ops, <<>>), item)]
    ELSE [kind |-> "CreateAccounts", items |-> <<item>>]

\* SealUpdater.SetOperations: the seal with ops as its operations
SetOperations(sl, ops) == ops

loadSealAndAddOperation(arg, op) ==
    IF arg.bytes = "nil" THEN [seal |-> <<op>>, err |-> Nil]
    ELSE IF arg.bytes = "blank" THEN [seal |-> <<>>, err |-> Errorf("empty input")]
    ELSE [seal |-> SetOperations(arg.ops, <<op>>), err |-> Nil]

InitCommand ==
    /\ pc = "command"
    /\ \E arg \in SealArguments : seal = [given |-> arg, written |-> <<>>, err |-> Nil]
    /\ IdleProcessor /\ IdleValid /\ IdleOther /\ IdleEnvelope /\ IdleLookup

\* CreateAccountCommand.Run: the operation is built, then put into the seal
CreateAccount ==
    /\ pc = "command"
    /\ \E id \in 1..3 :
          \E r \in {loadSealAndAddOperation(
                        seal.given, createOperation(seal.given, NewCreateAccountItem(id)))} :
             /\ seal' = [seal EXCEPT !.written = r.seal, !.err = r.err]
             /\ pc' = IF r.err = Nil THEN "written" ELSE "refused"
    /\ UNCHANGED <<ledger, before, tf, ppc, fault, perr, xerr, calls, vfact, verr,
                   lookups, other, envs, lk>>

NextCommand == CreateAccount

SpecCommand == InitCommand /\ [][NextCommand]_vars

\* ---------------------------------------------------------------- properties
Bal(ldg, a) == ldg[StateKeyBalance(a)][1]

RECURSIVE SumSeq(_)
SumSeq(q) == IF q = <<>> THEN 0 ELSE Head(q) + SumSeq(Tail(q))

\* the operation went through a successful PreProcess and a committing Process
Committed == pc = "committed" /\ ppc = "preprocessed"

\* C1: conservation.  After a successful PreProcess and a committing Process
\* every receiver holds its balance before plus its item amount, the sender
\* holds its balance before minus (sum of item amounts + fee), and
\* senderBefore = sum of the receiver credits + senderAfter + fee.
C1_Conservation ==
    Committed =>
        LET f == tf.op.fact
            fee == tf.fee[1]
            credits == [i \in 1..Len(f.items) |->
                           Bal(ledger, f.items[i].receiver) - Bal(before, f.items[i].receiver)]
        IN /\ \A i \in 1..Len(f.items) :
                  Bal(ledger, f.items[i].receiver)
                      = Bal(before, f.items[i].receiver) + f.items[i].amount
           /\ Bal(ledger, f.sender) = Bal(before, f.sender) - (SumAmounts(f.items) + fee)
           /\ Bal(before, f.sender) = SumSeq(credits) + Bal(ledger, f.sender) + fee

\* two items, a flat fee of 1 per item: the sender pays both amounts and 2
C1_Witness ==
    /\ Committed
    /\ Len(tf.op.fact.items) = 2
    /\ tf.fa = [kind |-> "fixed", v |-> 1]
    /\ tf.fee = <<2>>
    /\ Bal(before, tf.op.fact.sender) = InitBal
    /\ Bal(ledger, tf.op.fact.sender) = InitBal - (SumAmounts(tf.op.fact.items) + 2)

WellFormedFact(f) ==
    /\ f.h.wf
    /\ AddressIsValid(f.sender)
    /\ \A i \in 1..Len(f.items) :
          AddressIsValid(f.items[i].receiver) /\ AmountIsValid(f.items[i].amount)

IsValidConditions(f) ==
    /\ Len(f.token) >= 1
    /\ Len(f.items) >= 1 /\ Len(f.items) <= 10
    /\ \A i \in 1..Len(f.items) : f.items[i].amount > 0
    /\ \A i, j \in 1..Len(f.items) : i # j => f.items[i].receiver # f.items[j].receiver
    /\ \A i \in 1..Len(f.items) : f.items[i].receiver # f.sender
    /\ f.h = NewSHA256(TransfersFactBytes(f.token, f.sender, f.items))

\* C2: for a fact with well-formed hash, sender and item fields, IsValid
\* succeeds iff the token is non-empty, there are 1..10 items, every amount
\* is over zero, no receiver occurs twice, no receiver is the sender and the
\* stored hash is the recomputed one.
C2_IsValidIff ==
    (pc = "checked" /\ WellFormedFact(vfact)) =>
        ((verr = Nil) <=> IsValidConditions(vfact))

\* a fact with exactly ten items is accepted
C2_Witness ==
    /\ pc = "checked"
    /\ WellFormedFact(vfact)
    /\ verr = Nil
    /\ Len(vfact.items) = 10

\* C3: PreProcess never commits: after it returned, with or without an
\* error, no commit call was made and the ledger is the one it started from.
C3_PreProcessReadOnly ==
    pc \in {"preprocessed", "rejected"} => (calls = <<>> /\ ledger = before)

\* PreProcess rejected an operation the sender cannot afford
C3_Witness ==
    /\ pc = "rejected"
    /\ perr.chain = <<"insufficient balance of sender">>
    /\ ledger = before

\* C4: a Process that follows a successful PreProcess makes exactly one
\* commit call, made by Process itself, and that call carries N+1 balance
\* entries: the receiver of each of the N items, then the sender.
C4_SingleCommit ==
    (pc \in {"committed", "failed"} /\ ppc = "preprocessed") =>
        LET f == tf.op.fact
            n == Len(f.items)
        IN /\ Len(calls) = 1
           /\ calls[1].by = "Process"
           /\ Len(calls[1].sts) = n + 1
           /\ \A i \in 1..n :
                  calls[1].sts[i].st[1].key = StateKeyBalance(f.items[i].receiver)
           /\ calls[1].sts[n + 1].st[1].key = StateKeyBalance(f.sender)

C4_Witness ==
    /\ Committed
    /\ Len(tf.op.fact.items) = 2
    /\ Len(calls) = 1
    /\ Len(calls[1].sts) = 3

\* C5: from a ledger without negative balances, every balance passed to
\* commit, and every balance of the ledger after the operation, is
\* non-negative; operations run one after the other, so this step carries
\* over to any sequence of them.
C5_NonNegative ==
    /\ \A a \in Addr : ledger[StateKeyBalance(a)] # <<>> => Bal(ledger, a) >= 0
    /\ \A c \in 1..Len(calls) : \A i \in 1..Len(calls[c].sts) :
           AmountStateBalance(calls[c].sts[i]) >= 0

\* the operation takes everything the sender has: principal and fee
C5_Witness ==
    /\ Committed
    /\ tf.fee[1] > 0
    /\ Bal(before, tf.op.fact.sender) = SumAmounts(tf.op.fact.items) + tf.fee[1]
    /\ Bal(ledger, tf.op.fact.sender) = 0

\* ---- the situation PreProcess found, read off the operation and the ledger
Present(ldg, k) == ldg[k] # <<>>

\* no fault on, and both records present for, the sender
SenderResolved ==
    /\ fault \notin {<<StateKeyAccount(tf.op.fact.sender)>>, <<StateKeyBalance(tf.op.fact.sender)>>}
    /\ Present(before, StateKeyAccount(tf.op.fact.sender))
    /\ Present(before, StateKeyBalance(tf.op.fact.sender))

FeeFails == \E i \in 1..Len(tf.op.fact.items) : Fee(tf.fa, tf.op.fact.items[i].amount).err # Nil

FeeTotal == SumSeq([i \in 1..Len(tf.op.fact.items) |-> Fee(tf.fa, tf.op.fact.items[i].amount).fee])

Insufficient ==
    ~FeeFails /\ Bal(before, tf.op.fact.sender) < SumAmounts(tf.op.fact.items) + FeeTotal

ReceiverAbsent(i) ==
    \/ ~Present(before, StateKeyAccount(tf.op.fact.items[i].receiver))
    \/ ~Present(before, StateKeyBalance(tf.op.fact.items[i].receiver))

Authorized == \E i \in 1..Len(tf.op.signs) : tf.op.signs[i] = KeyOf(tf.op.fact.sender)

\* C6: Process commits only on an instance whose PreProcess succeeded, and a
\* failed PreProcess leaves no resolved sender balance, fee or per-item
\* processors on the instance.
C6_ProcessOnlyPreProcessed ==
    /\ (\E c \in 1..Len(calls) : calls[c].by = "Process") => ppc = "preprocessed"
    /\ pc = "rejected" => (tf.sb = NilAmountState /\ tf.fee = <<>> /\ tf.rb = <<>>)

\* C7: when only the signature check fails, PreProcess returns an error that
\* is marked ignorable and carries the "invalid signing" cause.
C7_InvalidSigningIgnorable ==
    (/\ pc = "rejected"
     /\ fault = <<>>
     /\ SenderResolved
     /\ ~FeeFails
     /\ ~Insufficient
     /\ \A i \in 1..Len(tf.op.fact.items) : ~ReceiverAbsent(i)
     /\ ~Authorized)
        => (perr.ignorable /\ perr.chain[1] = "invalid signing")

\* C8: when the sender's account record or balance record is absent (no
\* lookup error), PreProcess returns an error that is marked ignorable.
C8_SenderAbsentIgnorable ==
    (/\ pc = "rejected"
     /\ fault = <<>>
     /\ \/ ~Present(before, StateKeyAccount(tf.op.fact.sender))
        \/ ~Present(before, StateKeyBalance(tf.op.fact.sender)))
        => perr.ignorable

\* C9: with the sender resolved, a fee-schedule error, an insufficient
\* balance or one absent receiver record each make PreProcess reject the
\* whole operation with an error marked ignorable.
C9_RejectionsIgnorable ==
    (/\ pc \in {"preprocessed", "rejected"}
     /\ SenderResolved
     /\ \/ FeeFails
        \/ Insufficient
        \/ \E i \in 1..Len(tf.op.fact.items) : ReceiverAbsent(i))
        => (pc = "rejected" /\ perr # Nil /\ perr.ignorable /\ tf.rb = <<>> /\ ledger = before)

\* the second of two items goes to an absent receiver, the first to a present one
C9_Witness ==
    /\ pc = "rejected"
    /\ SenderResolved
    /\ ~FeeFails
    /\ ~Insufficient
    /\ Len(tf.op.fact.items) = 2
    /\ ~ReceiverAbsent(1)
    /\ ReceiverAbsent(2)
    /\ perr.ignorable

\* C10: when the commit fails after a successful PreProcess, Process returns
\* the store's error itself, not marked ignorable.
C10_CommitErrorFatal ==
    (pc = "failed" /\ ppc = "preprocessed") =>
        (xerr # Nil /\ xerr = calls[1].err /\ ~xerr.ignorable)

C10_Witness ==
    /\ pc = "failed"
    /\ ppc = "preprocessed"
    /\ calls # <<>>
    /\ calls[1].err # Nil
    /\ ledger = before

\* Process ran on an instance whose PreProcess had succeeded
Processed == pc \in {"committed", "failed"} /\ ppc = "preprocessed"

FirstFeeError ==
    LET bad == {i \in 1..Len(tf.op.fact.items) : Fee(tf.fa, tf.op.fact.items[i].amount).err # Nil}
        m == CHOOSE i \in bad : \A j \in bad : i <= j
    IN Fee(tf.fa, tf.op.fact.items[m].amount).err

\* C13: calculateFee is the sum of the schedule's fee of every single item;
\* a successful PreProcess stores exactly this sum and Process charges it;
\* an error of the schedule is returned as it is, with no fee amount.
C13_FeePerItem ==
    /\ (pc = "preprocessed" \/ Processed) =>
           (tf.fee = <<FeeTotal>> /\ calculateFee(tf) = [fee |-> FeeTotal, err |-> Nil])
    /\ Committed =>
           (/\ Bal(before, tf.op.fact.sender) - Bal(ledger, tf.op.fact.sender)
                   = SumAmounts(tf.op.fact.items) + FeeTotal
            /\ calls[1].sts[Len(calls[1].sts)].fee = FeeTotal)
    /\ (pc = "rejected" /\ SenderResolved /\ FeeFails) =>
           (/\ calculateFee(tf) = [fee |-> 0, err |-> FirstFeeError]
            /\ perr.chain = FirstFeeError.chain
            /\ tf.fee = <<>>)

\* two items of amount 1 under the ratio schedule: no fee, although the
\* schedule asks a fee for their sum
C13_Witness ==
    /\ Committed
    /\ tf.fa.kind = "ratio"
    /\ Len(tf.op.fact.items) = 2
    /\ tf.fee = <<0>>
    /\ Fee(tf.fa, SumAmounts(tf.op.fact.items)).fee > 0

\* ---- the order of the rules of IsValid
ItemInvalid(f, i) ==
    ~(AddressIsValid(f.items[i].receiver) /\ AmountIsValid(f.items[i].amount))

ItemValidityError(f, i) ==
    IF ItemInvalid(f, i) THEN Errorf("invalid item field")
    ELSE IF f.items[i].amount = 0 THEN Errorf("amount should be over zero")
    ELSE Nil

ItemReceiverError(f, i) ==
    IF \E j \in 1..(i - 1) : f.items[j].receiver = f.items[i].receiver
    THEN Errorf("duplicated receiver found")
    ELSE IF f.items[i].receiver = f.sender THEN Errorf("receiver is same with sender")
    ELSE Nil

First(S) == CHOOSE i \in S : \A j \in S : i <= j

HeadError(f) ==
    IF Len(f.token) < 1 THEN Errorf("empty token for TransferFact")
    ELSE IF Len(f.items) < 1 THEN Errorf("empty items")
    ELSE IF Len(f.items) > maxTransferItems THEN Errorf("items over max")
    ELSE IF ~(f.h.wf /\ AddressIsValid(f.sender)) THEN Errorf("invalid hash or sender")
    ELSE Nil

HashError(f) ==
    IF f.h # NewSHA256(TransfersFactBytes(f.token, f.sender, f.items))
    THEN Errorf("wrong Fact hash") ELSE Nil

\* rules (4) and (5) as stages: the validity of all items, then the receivers
StagedError(f) ==
    LET bad4 == {i \in 1..Len(f.items) : ItemValidityError(f, i) # Nil}
        bad5 == {i \in 1..Len(f.items) : ItemReceiverError(f, i) # Nil}
    IN IF HeadError(f) # Nil THEN HeadError(f)
       ELSE IF bad4 # {} THEN ItemValidityError(f, First(bad4))
       ELSE IF bad5 # {} THEN ItemReceiverError(f, First(bad5))
       ELSE HashError(f)

\* rules (4) and (5) applied to one item after the other
ScannedError(f) ==
    LET bad == {i \in 1..Len(f.items) :
                   ItemValidityError(f, i) # Nil \/ ItemReceiverError(f, i) # Nil}
        m == First(bad)
    IN IF HeadError(f) # Nil THEN HeadError(f)
       ELSE IF bad # {}
       THEN (IF ItemValidityError(f, m) # Nil THEN ItemValidityError(f, m)
             ELSE ItemReceiverError(f, m))
       ELSE HashError(f)

\* C17 as stated: IsValid fails with the error of the first violated rule in
\* the order (1) token, (2) item count, (3) hash and sender, (4) validity of
\* all items, (5) receivers, (6) hash.
C17_RulesInStages == pc = "checked" => verr = StagedError(vfact)

\* C17 amended: IsValid fails with the error of the first violated rule in
\* the order (1), (2), (3), then for each item in turn its validity (4) and
\* its receiver (5), then (6); when an earlier item repeats a receiver or
\* names the sender and a later item has a zero amount, the error is the
\* receiver error of the earlier item.
C17_RulesScanned == pc = "checked" => verr = ScannedError(vfact)

\* the second item repeats the first receiver, the third has amount zero
C17_Witness ==
    /\ pc = "checked"
    /\ Len(vfact.items) = 3
    /\ vfact.items[2].receiver = vfact.items[1].receiver
    /\ vfact.items[3].amount = 0
    /\ verr = Errorf("duplicated receiver found")

\* the account key and the balance key of every declared address
AddressKeys(f) ==
    LET as == TransfersFactAddresses(f)
    IN {StateKeyAccount(as[i]) : i \in 1..Len(as)} \cup {StateKeyBalance(as[i]) : i \in 1..Len(as)}

\* C15: Addresses() is every item's receiver plus the sender; every key
\* PreProcess looks up, and the key of every balance entry handed to commit,
\* is the account key or the balance key of an address in Addresses().
C15_AddressesCoverKeys ==
    pc \in {"preprocessed", "rejected", "committed", "failed", "panicked"} =>
        LET f == tf.op.fact
            as == TransfersFactAddresses(f)
        IN /\ {as[i] : i \in 1..Len(as)}
                  = {f.items[i].receiver : i \in 1..Len(f.items)} \cup {f.sender}
           /\ \A i \in 1..Len(lookups) : lookups[i] \in AddressKeys(f)
           /\ \A c \in 1..Len(calls) : \A i \in 1..Len(calls[c].sts) :
                  \E j \in 1..Len(as) : calls[c].sts[i].st[1].key = StateKeyBalance(as[j])

\* two items: seven lookups (sender twice, each receiver twice, the sender's
\* keys for the signature) and three committed entries
C15_Witness ==
    /\ Committed
    /\ Len(tf.op.fact.items) = 2
    /\ Len(lookups) = 7
    /\ lookups[1] = StateKeyAccount(tf.op.fact.sender)
    /\ lookups[4] = StateKeyBalance(tf.op.fact.items[1].receiver)
    /\ Len(calls[1].sts) = 3

\* C19: when the lookup answers an error, checkExistsState, existsState and
\* notExistsState each return that error, whatever the found flag; when it
\* answers none, checkExistsState and existsState succeed iff the state was
\* found and notExistsState succeeds iff it was not, so exactly one of
\* existsState and notExistsState succeeds; the ledger stays as it was.
C19_ExistenceHelpers ==
    pc = "lookup" =>
        LET out == lk.out
            c == lk.results.check
            e == lk.results.exists
            n == lk.results.notExists
        IN /\ ledger = before
           /\ out.err # Nil =>
                  /\ c # <<>> => c[1] = out.err
                  /\ e # <<>> => e[1] = [st |-> <<>>, err |-> out.err]
                  /\ n # <<>> => n[1] = [st |-> <<>>, err |-> out.err]
           /\ out.err = Nil =>
                  /\ c # <<>> => (c[1] = Nil <=> out.found)
                  /\ e # <<>> => (e[1].err = Nil <=> out.found)
                  /\ n # <<>> => (n[1].err = Nil <=> ~out.found)
                  /\ (e # <<>> /\ n # <<>>) => ((e[1].err = Nil) # (n[1].err = Nil))

\* the lookup answered a state, found, and an error: all three helpers
\* return the error
C19_Witness ==
    /\ pc = "lookup"
    /\ lk.out.found /\ lk.out.st # <<>> /\ lk.out.err # Nil
    /\ lk.results.check = <<lk.out.err>>
    /\ lk.results.exists = <<[st |-> <<>>, err |-> lk.out.err]>>
    /\ lk.results.notExists = <<[st |-> <<>>, err |-> lk.out.err]>>

\* q occurs in r as a run of neighbouring elements
IsRunOf(q, r) ==
    \E k \in 0..(Len(r) - Len(q)) : \A i \in 1..Len(q) : r[k + i] = q[i]

\* C18: given a seal, the create-account command loses nothing the seal
\* held: every operation of the given seal is still in the written seal, or
\* all its items are, in order, in the new operation's item list before the
\* newly created item.
C18_SealKeepsOperations ==
    (pc = "written" /\ seal.given.bytes = "seal") =>
        LET new == seal.written[Len(seal.written)]
        IN \A i \in 1..Len(seal.given.ops) :
              \/ \E j \in 1..Len(seal.written) : seal.written[j] = seal.given.ops[i]
              \/ IsRunOf(seal.given.ops[i].items, SubSeq(new.items, 1, Len(new.items) - 1))

\* the hash of an envelope: the fact hash's bytes, every signature in
\* order, the memo
EnvelopeHash(e) ==
    NewSHA256(HashBytes(e.fact.h) \o [i \in 1..Len(e.signs) |-> e.signs[i]] \o e.memo)

\* C14: after NewTransfers and any number of successful AddFactSigns the
\* envelope's stored hash is the hash over its fact hash, its signatures in
\* the order they were attached and its memo; the signatures attached before
\* a call are a prefix of those after it; the envelope a call was made on
\* keeps its signature list and its hash.
C14_EnvelopeHashFollowsSigns ==
    pc = "signing" =>
        /\ \A k \in 1..Len(envs) : envs[k].h = EnvelopeHash(envs[k])
        /\ \A k \in 2..Len(envs) :
              /\ Len(envs[k].signs) > Len(envs[k - 1].signs)
              /\ SubSeq(envs[k].signs, 1, Len(envs[k - 1].signs)) = envs[k - 1].signs
              /\ envs[k].fact = envs[k - 1].fact
              /\ envs[k].memo = envs[k - 1].memo
              /\ envs[k].h # envs[k - 1].h

\* two calls on a signed envelope with a memo
C14_Witness ==
    /\ pc = "signing"
    /\ Len(envs) = 3
    /\ envs[1].signs = <<3>>
    /\ envs[1].memo = <<5>>
    /\ envs[2].signs = <<3, 2>>
    /\ envs[3].signs = <<3, 2, 1>>
    /\ envs[3].h # envs[1].h

\* both instances are through
BothDone == pc \in {"rejected", "committed"} /\ other.pc \in {"rejected", "committed"}

IsPermutationOf(q, r) ==
    /\ Len(q) = Len(r)
    /\ \E p \in ItemOrders(Len(q)) : \A i \in 1..Len(q) : q[i] = r[p[i]]

\* C12: two facts with the same token and sender whose item lists are
\* permutations of each other, run against the same ledger and fee
\* schedule: PreProcess succeeds for one iff it does for the other, the fee
\* is the same, and after Process every account's balance is the same; the
\* fact hashes differ.
C12_OrderIndependent ==
    (/\ BothDone
     /\ other.tf.op.fact.token = tf.op.fact.token
     /\ other.tf.op.fact.sender = tf.op.fact.sender
     /\ IsPermutationOf(other.tf.op.fact.items, tf.op.fact.items)
     /\ other.tf.op.fact.items # tf.op.fact.items) =>
        /\ (perr = Nil) <=> (other.perr = Nil)
        /\ perr = Nil => (tf.fee = other.tf.fee /\ other.pc = "committed" /\ pc = "committed")
        /\ perr # Nil => (ledger = before /\ other.ledger = before)
        /\ \A a \in Addr : ledger[StateKeyBalance(a)] = other.ledger[StateKeyBalance(a)]
        /\ tf.op.fact.h # other.tf.op.fact.h

\* amounts 2 and 1 in either order under the ratio schedule
C12_Witness ==
    /\ BothDone
    /\ pc = "committed" /\ other.pc = "committed"
    /\ tf.fa.kind = "ratio"
    /\ Len(tf.op.fact.items) = 2
    /\ tf.op.fact.items[1].amount = 2 /\ tf.op.fact.items[2].amount = 1
    /\ other.tf.op.fact.items = <<tf.op.fact.items[2], tf.op.fact.items[1]>>
    /\ ledger = other.ledger
    /\ ledger # before

\* an operation run alone against ldg: the error of its PreProcess and the
\* ledger it leaves
RunAlone(p, ldg) ==
    LET r == TransfersProcessorPreProcess(p, ldg, <<>>)
    IN IF r.err # Nil THEN [err |-> r.err, ledger |-> ldg]
       ELSE [err |-> Nil,
             ledger |-> ApplyCalls(ldg, TransfersProcessorProcess(r.tf, Nil).calls)]

Fresh(p) == NewTransfersProcessor(p.op, p.fa)

AddressSet(f) ==
    {TransfersFactAddresses(f)[i] : i \in 1..Len(TransfersFactAddresses(f))}

\* C16: two operations whose Addresses() are disjoint, each on its own
\* processor instance: however their PreProcess and Process steps
\* interleave, each PreProcess returns what it returns when the operations
\* run one after the other, in either order, and the final ledger is the
\* same.
C16_DisjointCommute ==
    AddressSet(tf.op.fact) \cap AddressSet(other.tf.op.fact) = {} =>
        LET a == Fresh(tf)
            b == Fresh(other.tf)
            a1 == RunAlone(a, before)
            ab == RunAlone(b, a1.ledger)
            b1 == RunAlone(b, before)
            ba == RunAlone(a, b1.ledger)
        IN /\ pc # "created" => (perr = a1.err /\ perr = ba.err)
           /\ other.pc # "created" => (other.perr = ab.err /\ other.perr = b1.err)
           /\ BothDone => (ledger = ab.ledger /\ ledger = ba.ledger)

\* both operations committed; the second was pre-processed after the
\* first's PreProcess and processed after the first's Process
C16_Witness ==
    /\ pc = "committed" /\ other.pc = "committed"
    /\ other.seen = <<"preprocessed", "committed">>
    /\ Len(tf.op.fact.items) = 2 /\ Len(other.tf.op.fact.items) = 2
    /\ ledger # before

====
